---------------------------- MODULE Spec2Model ----------------------------
(***************************************************************************)
(* Smart Document Assistant: the text utilities, the validators, the       *)
(* document processor, the assistant / question generator and the session  *)
(* handlers of app.py.                                                     *)
(*                                                                         *)
(* A Python str is a sequence of one-character strings.  The helpers       *)
(* below are the str methods the code uses, computed on such sequences.    *)
(***************************************************************************)
EXTENDS Integers, Sequences, FiniteSets, TLC

VARIABLES
    document_text,           \* st.session_state.document_text
    document_name,           \* st.session_state.document_name
    summary,                 \* st.session_state.summary
    challenge_questions,     \* st.session_state.challenge_questions
    current_question_index,  \* st.session_state.current_question_index
    user_answers,            \* st.session_state.user_answers
    evaluations,             \* st.session_state.evaluations
    conversation_history,    \* AIAssistant.conversation_history
    args,                    \* the last call: the operation and its arguments
    ret,                     \* what that call returned
    pc,                      \* "call": args is about to be called; "done": it returned
    model_calls              \* generate_content calls made by the last handler

sessionVars == <<document_text, document_name, summary, challenge_questions,
                 current_question_index, user_answers, evaluations>>

vars == <<document_text, document_name, summary, challenge_questions,
          current_question_index, user_answers, evaluations,
          conversation_history, args, ret, pc, model_calls>>

\* the value of ret while nothing has returned
NoRet == "NoRet"

\* the call of fn held in args has returned
Returned(fn) == pc = "done" /\ args.fn = fn

(***************************************************************************)
(* str helpers                                                             *)
(***************************************************************************)
Whitespace == {" ", "\t", "\n"}

Str(n, c) == [i \in 1..n |-> c]

MinOf(a, b) == IF a < b THEN a ELSE b
MaxOf(a, b) == IF a > b THEN a ELSE b

\* words[i:j] of Python, 0-based, end exclusive, clipped to the sequence
Slice(s, i, j) == SubSeq(s, MaxOf(i, 0) + 1, MinOf(j, Len(s)))

RECURSIVE FirstNonSpace(_, _)
FirstNonSpace(s, i) ==
    IF i > Len(s) THEN i
    ELSE IF s[i] \in Whitespace THEN FirstNonSpace(s, i + 1) ELSE i

RECURSIVE LastNonSpace(_, _)
LastNonSpace(s, i) ==
    IF i < 1 THEN 0
    ELSE IF s[i] \in Whitespace THEN LastNonSpace(s, i - 1) ELSE i

\* str.strip()
Strip(s) == SubSeq(s, FirstNonSpace(s, 1), LastNonSpace(s, Len(s)))

\* the indices of lo..hi, in order, at which a word of s starts
RECURSIVE WordStarts(_, _, _)
WordStarts(s, lo, hi) ==
    IF lo > hi THEN <<>>
    ELSE IF lo = hi
    THEN IF s[lo] \notin Whitespace /\ (lo = 1 \/ s[lo - 1] \in Whitespace)
         THEN <<lo>> ELSE <<>>
    ELSE WordStarts(s, lo, (lo + hi) \div 2) \o WordStarts(s, (lo + hi) \div 2 + 1, hi)

\* the indices of lo..hi, in order, at which a word of s ends
RECURSIVE WordEnds(_, _, _)
WordEnds(s, lo, hi) ==
    IF lo > hi THEN <<>>
    ELSE IF lo = hi
    THEN IF s[lo] \notin Whitespace /\ (lo = Len(s) \/ s[lo + 1] \in Whitespace)
         THEN <<lo>> ELSE <<>>
    ELSE WordEnds(s, lo, (lo + hi) \div 2) \o WordEnds(s, (lo + hi) \div 2 + 1, hi)

\* str.split(): the maximal runs of non-whitespace characters
SplitWS(s) ==
    LET starts == WordStarts(s, 1, Len(s))
        ends == WordEnds(s, 1, Len(s))
    IN  [k \in 1..Len(starts) |-> SubSeq(s, starts[k], ends[k])]

\* str.split(sep) for a one-character sep: always at least one piece
RECURSIVE SplitOnFrom(_, _, _, _, _)
SplitOnFrom(s, sep, i, cur, acc) ==
    IF i > Len(s) THEN Append(acc, cur)
    ELSE IF s[i] = sep
         THEN SplitOnFrom(s, sep, i + 1, <<>>, Append(acc, cur))
         ELSE SplitOnFrom(s, sep, i + 1, Append(cur, s[i]), acc)

SplitOn(s, sep) == SplitOnFrom(s, sep, 1, <<>>, <<>>)

\* sep.join(parts[lo..hi])
RECURSIVE JoinRange(_, _, _, _)
JoinRange(parts, sep, lo, hi) ==
    IF lo > hi THEN <<>>
    ELSE IF lo = hi THEN parts[lo]
    ELSE JoinRange(parts, sep, lo, (lo + hi) \div 2) \o sep
            \o JoinRange(parts, sep, (lo + hi) \div 2 + 1, hi)

\* sep.join(parts)
Join(parts, sep) == JoinRange(parts, sep, 1, Len(parts))

\* str.startswith(prefix)
StartsWith(s, prefix) ==
    /\ Len(s) >= Len(prefix)
    /\ SubSeq(s, 1, Len(prefix)) = prefix

Range(s) == {s[i] : i \in 1..Len(s)}

RECURSIVE SeqsUpTo(_, _)
SeqsUpTo(S, n) ==
    IF n = 0 THEN {<<>>}
    ELSE LET shorter == SeqsUpTo(S, n - 1)
         IN  shorter \cup {Append(s, x) : s \in {t \in shorter : Len(t) = n - 1}, x \in S}

(***************************************************************************)
(* utils/text_utils.py: chunk_text                                         *)
(***************************************************************************)
ValueError == "ValueError"

\* the for loop of chunk_text from index i on, with its break
RECURSIVE ChunkLoop(_, _, _, _, _)
ChunkLoop(words, i, max_chunk_size, step, chunks) ==
    IF i >= Len(words) THEN chunks
    ELSE LET chunk == Join(Slice(words, i, i + max_chunk_size), <<" ">>)
         IN  IF i + max_chunk_size >= Len(words)
             THEN Append(chunks, chunk)
             ELSE ChunkLoop(words, i + step, max_chunk_size, step, Append(chunks, chunk))

\* the for loop without its break
RECURSIVE ChunkLoopToEnd(_, _, _, _, _)
ChunkLoopToEnd(words, i, max_chunk_size, step, chunks) ==
    IF i >= Len(words) THEN chunks
    ELSE ChunkLoopToEnd(words, i + step, max_chunk_size, step,
            Append(chunks, Join(Slice(words, i, i + max_chunk_size), <<" ">>)))

\* a plausible slip: the break left out, every start index of the range used
chunk_text_no_break(text, max_chunk_size, overlap) ==
    LET step == max_chunk_size - overlap
    IN  IF step = 0 THEN ValueError
        ELSE IF step < 0 THEN <<>>
        ELSE ChunkLoopToEnd(SplitWS(text), 0, max_chunk_size, step, <<>>)

\* a plausible slip: the start index advances by the chunk size, the overlap forgotten
chunk_text_no_overlap(text, max_chunk_size, overlap) ==
    ChunkLoop(SplitWS(text), 0, max_chunk_size, max_chunk_size, <<>>)

\* range(0, n, 0) raises ValueError; a negative step gives an empty range
chunk_text(text, max_chunk_size, overlap) ==
    LET step == max_chunk_size - overlap
    IN  IF step = 0 THEN ValueError
        ELSE IF step < 0 THEN <<>>
        ELSE ChunkLoop(SplitWS(text), 0, max_chunk_size, step, <<>>)

(***************************************************************************)
(* The session before any interaction (initialize_session_state, and the   *)
(* AIAssistant constructor).                                               *)
(***************************************************************************)
SessionInit ==
    /\ document_text = <<>>
    /\ document_name = <<>>
    /\ summary = <<>>
    /\ challenge_questions = <<>>
    /\ current_question_index = 0
    /\ user_answers = <<>>
    /\ evaluations = <<>>
    /\ conversation_history = <<>>
    /\ model_calls = 0

(***************************************************************************)
(* chunk_text applied to bounded inputs                                    *)
(***************************************************************************)
MaxWords == 5
MaxChunkSize == 3

ChunkWords == {<<"a">>, <<"b", "c">>}
Separators == {<<" ">>, <<" ", "\n">>}
Margins == {<<>>, <<" ">>}

ChunkTexts ==
    {lead \o Join(ws, sep) \o trail :
        ws \in SeqsUpTo(ChunkWords, MaxWords), sep \in Separators,
        lead \in Margins, trail \in Margins}

ChunkInit ==
    /\ SessionInit
    /\ ret = NoRet
    /\ pc = "call"
    /\ args \in [fn : {"chunk_text"}, text : ChunkTexts,
                 max_chunk_size : 1..MaxChunkSize, overlap : 0..MaxChunkSize]

CallChunkText ==
    /\ pc = "call"
    /\ args.fn = "chunk_text"
    /\ pc' = "done"
    /\ ret' = chunk_text(args.text, args.max_chunk_size, args.overlap)
    /\ UNCHANGED <<sessionVars, conversation_history, args, model_calls>>

SpecChunk == ChunkInit /\ [][CallChunkText]_vars

\* the words of chunk k with the first n of them removed
ChunkTail(chunk, n) == SubSeq(SplitWS(chunk), n + 1, Len(SplitWS(chunk)))

RECURSIVE Reassemble(_, _, _)
Reassemble(chunks, k, overlap) ==
    IF k > Len(chunks) THEN <<>>
    ELSE ChunkTail(chunks[k], IF k = 1 THEN 0 ELSE overlap)
            \o Reassemble(chunks, k + 1, overlap)

ChunkReturned ==
    /\ Returned("chunk_text")
    /\ args.max_chunk_size > args.overlap

\* C1: for maxSize > overlap >= 0 the first chunk's words followed by each later
\* chunk's words after its first `overlap` words are exactly text.split(), and
\* the last word of the text is a word of the last chunk.
C1_Reconstructs ==
    ChunkReturned =>
        LET words == SplitWS(args.text)
        IN  /\ Reassemble(ret, 1, args.overlap) = words
            /\ words # <<>> =>
                 /\ ret # <<>>
                 /\ words[Len(words)] \in Range(SplitWS(ret[Len(ret)]))

\* a text of several chunks, chunked with a positive overlap, the last one short
C1_Witness ==
    /\ ChunkReturned
    /\ args.overlap > 0
    /\ Len(ret) >= 2
    /\ Len(SplitWS(ret[Len(ret)])) < args.max_chunk_size

(***************************************************************************)
(* utils/text_utils.py: clean_text                                         *)
(***************************************************************************)
\* \w of the characters this model uses: letters, digits, the underscore
WordChars ==
    {"a", "b", "c", "d", "p", "x", "y", "A", "B", "D", "Q", "S",
     "0", "1", "3", "4", "5", "9", "_"}

\* the punctuation the second substitution keeps
KeptPunctuation == {".", ",", "!", "?", ";", ":", "-", "(", ")"}

AllowedChars == WordChars \cup Whitespace \cup KeptPunctuation

\* re.sub(r'\s+', ' ', s): every maximal whitespace run becomes one space
RECURSIVE CollapseFrom(_, _, _)
CollapseFrom(s, i, acc) ==
    IF i > Len(s) THEN acc
    ELSE IF s[i] \in Whitespace
         THEN CollapseFrom(s, FirstNonSpace(s, i), Append(acc, " "))
         ELSE CollapseFrom(s, i + 1, Append(acc, s[i]))

CollapseWhitespace(s) == CollapseFrom(s, 1, <<>>)

\* re.sub(r'[^\w\s\.\,\!\?\;\:\-\(\)]', '', s)
RemoveSpecial(s) == SelectSeq(s, LAMBDA c : c \in AllowedChars)

clean_text(text) == RemoveSpecial(CollapseWhitespace(Strip(text)))

MaxCleanLen == 5

CleanChars == {"a", " ", "\n", "@", "."}

CleanInit ==
    /\ SessionInit
    /\ ret = NoRet
    /\ pc = "call"
    /\ args \in [fn : {"clean_text"}, text : SeqsUpTo(CleanChars, MaxCleanLen)]

CallCleanText ==
    /\ pc = "call"
    /\ args.fn = "clean_text"
    /\ pc' = "done"
    /\ ret' = clean_text(args.text)
    /\ UNCHANGED <<sessionVars, conversation_history, args, model_calls>>

SpecClean == CleanInit /\ [][CallCleanText]_vars

NoDoubleWhitespace(s) ==
    \A i \in 1..(Len(s) - 1) : ~(s[i] \in Whitespace /\ s[i + 1] \in Whitespace)

\* C2: for a non-empty text, clean_text(text) has no two consecutive whitespace
\* characters and no character outside the allowed set, also when a removed
\* character stood between two spaces or at either end of the text.
C2_CleanNormalised ==
    (Returned("clean_text") /\ args.text # <<>>) =>
        /\ NoDoubleWhitespace(ret)
        /\ Range(ret) \subseteq AllowedChars

(***************************************************************************)
(* utils/validators.py: validate_question                                  *)
(***************************************************************************)
None == "None"

MinQuestionLen == 5
MaxQuestionLen == 500

\* a plausible variant: the upper limit applied to the trimmed text as well
validate_question_trimmed(question) ==
    IF question = <<>> \/ Strip(question) = <<>>
    THEN <<FALSE, "Please enter a question">>
    ELSE IF Len(Strip(question)) < MinQuestionLen
    THEN <<FALSE, "Question too short. Please be more specific">>
    ELSE IF Len(Strip(question)) > MaxQuestionLen
    THEN <<FALSE, "Question too long. Please keep it under 500 characters">>
    ELSE <<TRUE, None>>

validate_question(question) ==
    IF question = <<>> \/ Strip(question) = <<>>
    THEN <<FALSE, "Please enter a question">>
    ELSE IF Len(Strip(question)) < MinQuestionLen
    THEN <<FALSE, "Question too short. Please be more specific">>
    ELSE IF Len(question) > MaxQuestionLen
    THEN <<FALSE, "Question too long. Please keep it under 500 characters">>
    ELSE <<TRUE, None>>

MaxPad == 3

\* the lengths around the two limits
CoreLengths ==
    (0..(MinQuestionLen + 1)) \cup ((MaxQuestionLen - 3)..(MaxQuestionLen + 2))

\* a question of n characters that neither starts nor ends with whitespace
Core(n) == [i \in 1..n |-> IF i = 3 THEN " " ELSE "x"]

ValidateQuestions ==
    {Str(lead, " ") \o Core(n) \o Str(trail, "\n") :
        lead \in 0..MaxPad, trail \in 0..MaxPad, n \in CoreLengths}

ValidateInit ==
    /\ SessionInit
    /\ ret = NoRet
    /\ pc = "call"
    /\ args \in [fn : {"validate_question"}, question : ValidateQuestions]

CallValidateQuestion ==
    /\ pc = "call"
    /\ args.fn = "validate_question"
    /\ pc' = "done"
    /\ ret' = validate_question(args.question)
    /\ UNCHANGED <<sessionVars, conversation_history, args, model_calls>>

SpecValidate == ValidateInit /\ [][CallValidateQuestion]_vars

QuestionValidated == Returned("validate_question")

\* C8 as stated: accepted exactly when the trimmed text is non-empty and has
\* between 5 and 500 characters; otherwise rejected with a message.
C8_TrimmedLimits ==
    QuestionValidated =>
        LET trimmed == Strip(args.question)
        IN  /\ ret[1] = (/\ trimmed # <<>>
                         /\ Len(trimmed) >= MinQuestionLen
                         /\ Len(trimmed) <= MaxQuestionLen)
            /\ ~ret[1] => ret[2] # None

\* C8 amended: accepted exactly when the trimmed text has at least 5 characters
\* and the question as entered, untrimmed, has at most 500 characters; every
\* other question is rejected with an error message.
C8_RawUpperLimit ==
    QuestionValidated =>
        /\ ret[1] = (/\ Len(Strip(args.question)) >= MinQuestionLen
                     /\ Len(args.question) <= MaxQuestionLen)
        /\ ret[1] => ret[2] = None
        /\ ~ret[1] => ret[2] # None

\* a question within the limit once trimmed, over it as entered, and rejected
C8_Witness ==
    /\ QuestionValidated
    /\ Len(Strip(args.question)) <= MaxQuestionLen
    /\ Len(args.question) > MaxQuestionLen
    /\ ret[1] = FALSE

(***************************************************************************)
(* core/ai_assistant.py: _find_relevant_chunk                              *)
(***************************************************************************)
\* str.lower() on the letters this model uses
LowerChar(c) ==
    CASE c = "A" -> "a"
      [] c = "B" -> "b"
      [] c = "D" -> "d"
      [] c = "F" -> "f"
      [] c = "P" -> "p"
      [] c = "Q" -> "q"
      [] c = "S" -> "s"
      [] OTHER -> c

Lower(s) == [i \in 1..Len(s) |-> LowerChar(s[i])]

\* set(text.lower().split())
WordSet(text) == Range(SplitWS(Lower(text)))

\* len(question_words.intersection(set(chunk.lower().split())))
Overlap(question_words, chunk) == Cardinality(question_words \cap WordSet(chunk))

\* the scan over chunks[k..], carrying best_chunk and best_score
RECURSIVE SelectLoop(_, _, _, _, _)
SelectLoop(question_words, chunks, k, best_chunk, best_score) ==
    IF k > Len(chunks) THEN best_chunk
    ELSE LET overlap == Overlap(question_words, chunks[k])
         IN  IF overlap > best_score
             THEN SelectLoop(question_words, chunks, k + 1, chunks[k], overlap)
             ELSE SelectLoop(question_words, chunks, k + 1, best_chunk, best_score)

\* the same scan taking a later chunk on an equal score (>= for >)
RECURSIVE SelectLoopLast(_, _, _, _, _)
SelectLoopLast(question_words, chunks, k, best_chunk, best_score) ==
    IF k > Len(chunks) THEN best_chunk
    ELSE LET overlap == Overlap(question_words, chunks[k])
         IN  IF overlap >= best_score
             THEN SelectLoopLast(question_words, chunks, k + 1, chunks[k], overlap)
             ELSE SelectLoopLast(question_words, chunks, k + 1, best_chunk, best_score)

IndexError == "IndexError"

_find_relevant_chunk_last(question, chunks) ==
    IF chunks = <<>> THEN IndexError
    ELSE SelectLoopLast(WordSet(question), chunks, 1, chunks[1], 0)

\* chunks[0] raises IndexError on an empty list
_find_relevant_chunk(question, chunks) ==
    IF chunks = <<>> THEN IndexError
    ELSE SelectLoop(WordSet(question), chunks, 1, chunks[1], 0)

MaxChunks == 3

\* 'cat dog', 'cat dog bird', 'plain' and 'bird dog' with one letter a word
SelectChunkTexts ==
    {<<"c", " ", "d">>, <<"c", " ", "d", " ", "b">>, <<"p">>,
     <<"B", " ", "D", " ", "b">>, <<"d", "\n", "p">>, <<>>}

SelectQuestions ==
    {<<"b", " ", "d">>, <<"D">>, <<"b", " ", "b", " ", "p">>, <<"x", "?">>, <<>>}

SelectInit ==
    /\ SessionInit
    /\ ret = NoRet
    /\ pc = "call"
    /\ args \in [fn : {"_find_relevant_chunk"}, question : SelectQuestions,
                 chunks : SeqsUpTo(SelectChunkTexts, MaxChunks)]

CallFindRelevantChunk ==
    /\ pc = "call"
    /\ args.fn = "_find_relevant_chunk"
    /\ pc' = "done"
    /\ ret' = _find_relevant_chunk(args.question, args.chunks)
    /\ UNCHANGED <<sessionVars, conversation_history, args, model_calls>>

SpecSelect == SelectInit /\ [][CallFindRelevantChunk]_vars

ChunkSelected ==
    /\ Returned("_find_relevant_chunk")
    /\ args.chunks # <<>>

\* the size of the intersection of the two lowercase word sets
Score(k) == Cardinality(WordSet(args.question) \cap WordSet(args.chunks[k]))

\* C5: for a non-empty list the chunk returned is the first one of the list
\* whose lowercase word set has the greatest intersection with the question's
\* (the first chunk when every overlap is 0); 'cat dog', 'cat dog bird', 'plain'
\* with 'bird dog' give 'cat dog bird'.
C5_FirstGreatestOverlap ==
    ChunkSelected =>
        /\ \E k \in 1..Len(args.chunks) :
              /\ ret = args.chunks[k]
              /\ \A j \in 1..Len(args.chunks) : Score(j) <= Score(k)
              /\ \A j \in 1..(k - 1) : Score(j) < Score(k)
        /\ (/\ args.chunks = <<(<<"c", " ", "d">>), (<<"c", " ", "d", " ", "b">>), (<<"p">>)>>
            /\ args.question = <<"b", " ", "d">>)
              => ret = <<"c", " ", "d", " ", "b">>

\* two different chunks tie for the greatest, positive overlap
C5_Witness ==
    /\ ChunkSelected
    /\ \E j, k \in 1..Len(args.chunks) :
          /\ j < k
          /\ args.chunks[j] # args.chunks[k]
          /\ Score(j) = Score(k)
          /\ Score(j) > 0
          /\ \A i \in 1..Len(args.chunks) : Score(i) <= Score(j)

(***************************************************************************)
(* core/ai_assistant.py: _parse_answer                                     *)
(*                                                                         *)
(* A literal text of the program that is only stored and shown is a        *)
(* one-element sequence holding the literal.                               *)
(***************************************************************************)
\* str.splitlines(): the pieces between line breaks, no empty piece at the end
SplitLines(s) ==
    LET pieces == SplitOn(s, "\n")
    IN  IF pieces[Len(pieces)] = <<>> THEN SubSeq(pieces, 1, Len(pieces) - 1)
        ELSE pieces

\* line.split(':', 1)[1] of a line that holds a colon
AfterFirstColon(line) ==
    LET first == CHOOSE i \in 1..Len(line) :
                    line[i] = ":" /\ \A j \in 1..(i - 1) : line[j] # ":"
    IN  SubSeq(line, first + 1, Len(line))

AnswerPrefix == <<"A", "n", "s", "w", "e", "r", ":">>
ReferencePrefix == <<"R", "e", "f", "e", "r", "e", "n", "c", "e", ":">>
GeneralDocumentContent == <<"General document content">>

\* the loop over the lines, from line k on
RECURSIVE ParseAnswerLines(_, _, _)
ParseAnswerLines(lines, k, result) ==
    IF k > Len(lines) THEN result
    ELSE IF StartsWith(lines[k], AnswerPrefix)
    THEN ParseAnswerLines(lines, k + 1,
            [result EXCEPT !.answer = Strip(AfterFirstColon(lines[k]))])
    ELSE IF StartsWith(lines[k], ReferencePrefix)
    THEN ParseAnswerLines(lines, k + 1,
            [result EXCEPT !.reference = Strip(AfterFirstColon(lines[k]))])
    ELSE ParseAnswerLines(lines, k + 1, result)

\* a plausible slip: the fallback answer is the raw text, not trimmed
_parse_answer_untrimmed(answer_text) ==
    LET result == ParseAnswerLines(SplitLines(answer_text), 1,
                    [answer |-> <<>>, reference |-> <<>>, confidence |-> "0.8"])
    IN  IF result.answer = <<>>
        THEN [result EXCEPT !.answer = answer_text,
                            !.reference = GeneralDocumentContent]
        ELSE result

_parse_answer(answer_text) ==
    LET result == ParseAnswerLines(SplitLines(answer_text), 1,
                    [answer |-> <<>>, reference |-> <<>>, confidence |-> "0.8"])
    IN  IF result.answer = <<>>
        THEN [result EXCEPT !.answer = Strip(answer_text),
                            !.reference = GeneralDocumentContent]
        ELSE result

MaxLines == 2

LinePrefixes ==
    {<<>>, AnswerPrefix, ReferencePrefix, <<" ">> \o AnswerPrefix,
     <<"a", "n", "s", "w", "e", "r", ":">>}

LineBodies ==
    {<<>>, <<" ", "a">>, <<" ", "a", " ">>, <<" ", "a", ":", "b">>, <<"b">>}

AnswerLines == {prefix \o body : prefix \in LinePrefixes, body \in LineBodies}

AnswerTexts ==
    {Join(lines, <<"\n">>) \o tail :
        lines \in SeqsUpTo(AnswerLines, MaxLines), tail \in {<<>>, <<"\n">>}}

AnswerInit ==
    /\ SessionInit
    /\ ret = NoRet
    /\ pc = "call"
    /\ args \in [fn : {"_parse_answer"}, answer_text : AnswerTexts]

CallParseAnswer ==
    /\ pc = "call"
    /\ args.fn = "_parse_answer"
    /\ pc' = "done"
    /\ ret' = _parse_answer(args.answer_text)
    /\ UNCHANGED <<sessionVars, conversation_history, args, model_calls>>

SpecAnswer == AnswerInit /\ [][CallParseAnswer]_vars

AnswerParsed == Returned("_parse_answer")

HasLineWith(text, prefix) ==
    \E k \in 1..Len(SplitLines(text)) : StartsWith(SplitLines(text)[k], prefix)

\* C4: a response with no line starting with 'Answer:' and none starting with
\* 'Reference:' gives reference 'General document content' and, as the answer,
\* the whole response trimmed.
C4_NoPrefixFallback ==
    (/\ AnswerParsed
     /\ ~HasLineWith(args.answer_text, AnswerPrefix)
     /\ ~HasLineWith(args.answer_text, ReferencePrefix)) =>
        /\ ret.reference = GeneralDocumentContent
        /\ ret.answer = Strip(args.answer_text)

\* a response of two lines, neither recognised, with whitespace to trim
C4_Witness ==
    /\ AnswerParsed
    /\ ~HasLineWith(args.answer_text, AnswerPrefix)
    /\ ~HasLineWith(args.answer_text, ReferencePrefix)
    /\ Len(SplitLines(args.answer_text)) = 2
    /\ Strip(args.answer_text) # args.answer_text
    /\ ret.answer # <<>>

(***************************************************************************)
(* The generative model: generate_content either raises or returns a       *)
(* response whose text is a string or None.                                *)
(***************************************************************************)
ModelError == [status |-> "error"]
NoText == [status |-> "none"]
Reply(text) == [status |-> "ok", text |-> text]

\* response.text if response.text else ""  (also: response.text or "")
TextOf(response) == IF response.status = "ok" THEN response.text ELSE <<>>

(***************************************************************************)
(* core/question_generator.py: _parse_evaluation, evaluate_answer          *)
(***************************************************************************)
Digits == {"0", "1", "2", "3", "4", "5", "6", "7", "8", "9"}

DigitValue(c) ==
    CASE c = "0" -> 0 [] c = "1" -> 1 [] c = "2" -> 2 [] c = "3" -> 3
      [] c = "4" -> 4 [] c = "5" -> 5 [] c = "6" -> 6 [] c = "7" -> 7
      [] c = "8" -> 8 [] c = "9" -> 9

RECURSIVE DigitsValue(_, _, _)
DigitsValue(s, i, acc) ==
    IF i > Len(s) THEN acc
    ELSE IF s[i] = "_" THEN DigitsValue(s, i + 1, acc)
    ELSE DigitsValue(s, i + 1, 10 * acc + DigitValue(s[i]))

\* the digit strings int() accepts: digits, single underscores between them
IsDigits(s) ==
    /\ s # <<>>
    /\ s[1] \in Digits
    /\ s[Len(s)] \in Digits
    /\ \A i \in 1..Len(s) : s[i] \in Digits \cup {"_"}
    /\ \A i \in 1..(Len(s) - 1) : ~(s[i] = "_" /\ s[i + 1] = "_")

\* int(s): surrounding whitespace, an optional sign, digits; else ValueError
ParseInt(s) ==
    LET t == Strip(s)
        signed == t # <<>> /\ t[1] \in {"+", "-"}
        body == IF signed THEN Tail(t) ELSE t
    IN  IF ~IsDigits(body) THEN [ok |-> FALSE]
        ELSE [ok |-> TRUE,
              value |-> IF signed /\ t[1] = "-" THEN 0 - DigitsValue(body, 1, 0)
                        ELSE DigitsValue(body, 1, 0)]

ScorePrefix == <<"S", "c", "o", "r", "e", ":">>
FeedbackPrefix == <<"F", "e", "e", "d", "b", "a", "c", "k", ":">>
JustificationPrefix ==
    <<"J", "u", "s", "t", "i", "f", "i", "c", "a", "t", "i", "o", "n", ":">>

DefaultScore == 3
MinScore == 1
MaxScore == 5

\* a plausible slip: only the upper limit applied
ClampHigh(score) == MinOf(MaxScore, score)

\* max(1, min(5, score))
Clamp(score) == MaxOf(MinScore, MinOf(MaxScore, score))

\* the try block of a 'Score:' line: the result with the score it yields
ScoreLine(line, result) ==
    LET score_text == Strip(SplitOn(line, ":")[2])
        score == ParseInt(SplitOn(score_text, "/")[1])
    IN  IF score.ok THEN [result EXCEPT !.score = Clamp(score.value)]
        ELSE result

RECURSIVE ParseEvaluationLines(_, _, _)
ParseEvaluationLines(lines, k, result) ==
    IF k > Len(lines) THEN result
    ELSE LET line == Strip(lines[k])
         IN  IF StartsWith(line, ScorePrefix)
             THEN ParseEvaluationLines(lines, k + 1, ScoreLine(line, result))
             ELSE IF StartsWith(line, FeedbackPrefix)
             THEN ParseEvaluationLines(lines, k + 1,
                     [result EXCEPT !.feedback = Strip(AfterFirstColon(line))])
             ELSE IF StartsWith(line, JustificationPrefix)
             THEN ParseEvaluationLines(lines, k + 1,
                     [result EXCEPT !.justification = Strip(AfterFirstColon(line))])
             ELSE ParseEvaluationLines(lines, k + 1, result)

\* a plausible slip: the placeholders as the defaults of the parse
_parse_evaluation_placeholders(evaluation_text) ==
    ParseEvaluationLines(SplitOn(evaluation_text, "\n"), 1,
        [score |-> DefaultScore,
         feedback |-> <<"Unable to evaluate answer at this time.">>,
         justification |-> <<"System error occurred during evaluation.">>])

_parse_evaluation(evaluation_text) ==
    ParseEvaluationLines(SplitOn(evaluation_text, "\n"), 1,
        [score |-> DefaultScore, feedback |-> <<>>, justification |-> <<>>])

EvaluationFallback ==
    [score |-> DefaultScore,
     feedback |-> <<"Unable to evaluate answer at this time.">>,
     justification |-> <<"System error occurred during evaluation.">>]

\* QuestionGenerator.evaluate_answer: the prompt is built, the model called,
\* its reply parsed; any exception gives the fallback
QG_evaluate_answer(question, user_answer, doc, correct_answer, response) ==
    IF response.status = "error" THEN EvaluationFallback
    ELSE _parse_evaluation(TextOf(response))

(***************************************************************************)
(* core/question_generator.py: _parse_questions,                           *)
(* generate_challenge_questions                                            *)
(***************************************************************************)
question_types == {"comprehension", "inference", "analysis", "evaluation"}

MaxQuestions == 3

\* questions.append({...}); types[n] is what random.choice gives the n-th one
AppendQuestion(questions, current_q, current_a, types) ==
    Append(questions,
           [question |-> current_q, expected_answer |-> current_a,
            type |-> types[MinOf(Len(questions) + 1, MaxQuestions)]])

\* the loop over the lines from line k on; None and '' are both <<>>
RECURSIVE ParseQuestionsLines(_, _, _, _, _, _)
ParseQuestionsLines(lines, k, current_q, current_a, questions, types) ==
    IF k > Len(lines)
    THEN IF current_q # <<>> /\ current_a # <<>>
         THEN AppendQuestion(questions, current_q, current_a, types)
         ELSE questions
    ELSE LET line == Strip(lines[k])
         IN  IF StartsWith(line, <<"Q">>) /\ ":" \in Range(line)
             THEN ParseQuestionsLines(lines, k + 1, Strip(AfterFirstColon(line)), <<>>,
                     IF current_q # <<>> /\ current_a # <<>>
                     THEN AppendQuestion(questions, current_q, current_a, types)
                     ELSE questions,
                     types)
             ELSE IF StartsWith(line, <<"A">>) /\ ":" \in Range(line) /\ current_q # <<>>
             THEN ParseQuestionsLines(lines, k + 1, current_q,
                     Strip(AfterFirstColon(line)), questions, types)
             ELSE ParseQuestionsLines(lines, k + 1, current_q, current_a,
                     questions, types)

\* a plausible slip: every recorded question returned
_parse_questions_all(questions_text, types) ==
    ParseQuestionsLines(SplitOn(Strip(questions_text), "\n"), 1,
                        <<>>, <<>>, <<>>, types)

\* questions[:3]
_parse_questions(questions_text, types) ==
    Slice(ParseQuestionsLines(SplitOn(Strip(questions_text), "\n"), 1,
                              <<>>, <<>>, <<>>, types),
          0, MaxQuestions)

_generate_fallback_questions ==
    << [question |-> <<"What are the main topics discussed in this document?">>,
        expected_answer |->
            <<"Based on the document content, identify key themes and subjects.">>,
        type |-> "comprehension"],
       [question |-> <<"What conclusions can be drawn from the information presented?">>,
        expected_answer |->
            <<"Analyze the evidence and reasoning to identify logical conclusions.">>,
        type |-> "inference"],
       [question |-> <<"How do the different sections of this document relate to each other?">>,
        expected_answer |->
            <<"Examine the structure and connections between different parts.">>,
        type |-> "analysis"] >>

\* a plausible slip: a failed call handled like a reply without text
generate_challenge_questions_no_fallback(doc, response, types) ==
    _parse_questions(TextOf(response), types)

generate_challenge_questions(doc, response, types) ==
    IF response.status = "error" THEN _generate_fallback_questions
    ELSE _parse_questions(TextOf(response), types)

(***************************************************************************)
(* app.py: the handlers of the challenge mode                              *)
(***************************************************************************)
\* dict[key] = value
DictSet(dict, key, value) ==
    [k \in (DOMAIN dict) \cup {key} |-> IF k = key THEN value ELSE dict[k]]

\* show_challenge_interface: the 'Generate Challenge Questions' button
GenerateChallengeQuestions(response, types) ==
    /\ document_text # <<>>
    /\ challenge_questions = <<>>
    /\ challenge_questions' = generate_challenge_questions(document_text, response, types)
    /\ args' = [fn |-> "generate_challenge_questions", response |-> response]
    /\ ret' = challenge_questions'
    /\ pc' = "done"
    /\ model_calls' = 1
    /\ UNCHANGED <<document_text, document_name, summary, current_question_index,
                   user_answers, evaluations, conversation_history>>

\* show_challenge_questions: 'Submit Answer', then evaluate_answer of app.py
SubmitAnswer(user_answer, response) ==
    /\ document_text # <<>>
    /\ challenge_questions # <<>>
    /\ current_question_index < Len(challenge_questions)
    /\ args' = [fn |-> "evaluate_answer", question_idx |-> current_question_index,
                user_answer |-> user_answer, response |-> response]
    /\ pc' = "done"
    /\ IF Strip(user_answer) # <<>>
       THEN LET question_data == challenge_questions[current_question_index + 1]
                evaluation == QG_evaluate_answer(question_data.question, user_answer,
                                  document_text, question_data.expected_answer, response)
            IN  /\ evaluations' = DictSet(evaluations, current_question_index, evaluation)
                /\ user_answers' = DictSet(user_answers, current_question_index, user_answer)
                /\ ret' = evaluation
                /\ model_calls' = 1
       ELSE /\ ret' = [error |-> "Please provide an answer before submitting."]
            /\ model_calls' = 0
            /\ UNCHANGED <<evaluations, user_answers>>
    /\ UNCHANGED <<document_text, document_name, summary, challenge_questions,
                   current_question_index, conversation_history>>

\* a plausible slip: the button offered on the last question too
NextQuestionPastEnd ==
    /\ document_text # <<>>
    /\ challenge_questions # <<>>
    /\ current_question_index < Len(challenge_questions)
    /\ current_question_index' = current_question_index + 1
    /\ args' = [fn |-> "next_question"]
    /\ ret' = None
    /\ pc' = "done"
    /\ model_calls' = 0
    /\ UNCHANGED <<document_text, document_name, summary, challenge_questions,
                   user_answers, evaluations, conversation_history>>

\* show_challenge_questions: 'Next Question'
NextQuestion ==
    /\ document_text # <<>>
    /\ challenge_questions # <<>>
    /\ current_question_index < Len(challenge_questions) - 1
    /\ current_question_index' = current_question_index + 1
    /\ args' = [fn |-> "next_question"]
    /\ ret' = None
    /\ pc' = "done"
    /\ model_calls' = 0
    /\ UNCHANGED <<document_text, document_name, summary, challenge_questions,
                   user_answers, evaluations, conversation_history>>

\* reset_session, then initialize_session_state on the rerun
ResetSession ==
    /\ document_text # <<>>
    /\ document_text' = <<>>
    /\ document_name' = <<>>
    /\ summary' = <<>>
    /\ challenge_questions' = <<>>
    /\ current_question_index' = 0
    /\ user_answers' = <<>>
    /\ evaluations' = <<>>
    /\ conversation_history' = <<>>
    /\ args' = [fn |-> "reset_session"]
    /\ ret' = None
    /\ pc' = "done"
    /\ model_calls' = 0

(***************************************************************************)
(* A session with a document loaded and the challenge mode chosen          *)
(***************************************************************************)
LoadedText == <<"a", " ", "b", ".">>
LoadedName == <<"a", ".", "t", "x", "t">>
LoadedSummary == <<"a", " ", "b">>

LoadedInit ==
    /\ document_text = LoadedText
    /\ document_name = LoadedName
    /\ summary = LoadedSummary
    /\ user_answers = <<>>
    /\ evaluations = <<>>
    /\ conversation_history = <<>>
    /\ args = [fn |-> "process_file"]
    /\ ret = NoRet
    /\ model_calls = 1

UserAnswers == {<<"y">>, <<" ">>}

(***************************************************************************)
(* One answer submitted, the model replying anything                       *)
(***************************************************************************)
MaxScoreLen == 3

ScoreChars == {"4", "9", "0", "-", "/", " ", "a", ":"}

ScoreTexts ==
    {lead \o ScorePrefix \o body :
        lead \in {<<>>, <<" ">>}, body \in SeqsUpTo(ScoreChars, MaxScoreLen)}

EvalLines ==
    {ScorePrefix \o <<" ", "4", "/", "5">>,
     ScorePrefix \o <<" ", "9">>,
     ScorePrefix \o <<" ", "a", "b", "c">>,
     ScorePrefix \o <<"1", "_", "0">>,
     FeedbackPrefix \o <<" ", "o", "k">>,
     JustificationPrefix \o <<" ", "p", ".", "1">>,
     <<"s", "c", "o", "r", "e", ":", " ", "1">>,
     <<>>}

EvalTexts ==
    ScoreTexts \cup {Join(lines, <<"\n">>) : lines \in SeqsUpTo(EvalLines, MaxLines)}

EvalResponses == {ModelError, NoText} \cup {Reply(text) : text \in EvalTexts}

EvalInit ==
    /\ LoadedInit
    /\ challenge_questions = _generate_fallback_questions
    /\ current_question_index \in 0..(MaxQuestions - 1)
    /\ pc = "call"

SubmitOnce ==
    /\ pc = "call"
    /\ \E user_answer \in UserAnswers, response \in EvalResponses :
          SubmitAnswer(user_answer, response)

SpecEval == EvalInit /\ [][SubmitOnce]_vars

\* the answer was submitted and its evaluation stored
Evaluated ==
    /\ Returned("evaluate_answer")
    /\ Strip(args.user_answer) # <<>>

RepliedWith(text) == args.response.status = "ok" /\ args.response.text = text

StoredScore == evaluations[args.question_idx].score

\* C3: every evaluation stored in the evaluations map has an integer score in
\* 1..5, whatever the model replied and when the call failed: 'Score: 4/5' gives
\* 4, 'Score: 9' gives 5, a score below 1 gives 1, a non-numeric or missing score
\* gives the default 3.
C3_ScoreInRange ==
    /\ \A k \in DOMAIN evaluations : evaluations[k].score \in 1..5
    /\ Evaluated =>
        /\ args.question_idx \in DOMAIN evaluations
        /\ evaluations[args.question_idx] = ret
        /\ args.response.status = "error" => StoredScore = 3
        /\ args.response.status = "none" => StoredScore = 3
        /\ RepliedWith(ScorePrefix \o <<" ", "4", "/", "5">>) => StoredScore = 4
        /\ RepliedWith(ScorePrefix \o <<" ", "9">>) => StoredScore = 5
        /\ RepliedWith(ScorePrefix \o <<" ", "0">>) => StoredScore = 1
        /\ RepliedWith(ScorePrefix \o <<" ", "-", "4">>) => StoredScore = 1
        /\ RepliedWith(ScorePrefix \o <<" ", "a", "b", "c">>) => StoredScore = 3
        /\ RepliedWith(ScorePrefix \o <<" ", "4", "a">>) => StoredScore = 3
        /\ RepliedWith(ScorePrefix) => StoredScore = 3
        /\ RepliedWith(FeedbackPrefix \o <<" ", "o", "k">>) => StoredScore = 3

\* a reply whose score is a number below 1 was stored as 1
C3_Witness ==
    /\ Evaluated
    /\ RepliedWith(ScorePrefix \o <<" ", "-", "4">>)
    /\ StoredScore = 1

(***************************************************************************)
(* The challenge mode                                                      *)
(***************************************************************************)
QLine == <<"Q", "1", ":", " ", "x", "?">>
ALine == <<"A", "1", ":", " ", "y">>

QuestionTexts ==
    {Join(lines, <<"\n">>) :
        lines \in {<<QLine, ALine, QLine, ALine, QLine, ALine>>,
                   <<QLine, ALine, QLine, ALine, QLine, ALine, QLine, ALine>>,
                   <<QLine, ALine, <<>>, QLine, ALine>>,
                   <<QLine, QLine, ALine>>,
                   <<ALine, QLine>>,
                   <<>>}}

QuestionResponses == {ModelError, NoText} \cup {Reply(text) : text \in QuestionTexts}

ChallengeEvalResponses ==
    {ModelError,
     Reply(ScorePrefix \o <<" ", "4", "/", "5">>),
     Reply(Join(<<ScorePrefix \o <<" ", "9">>, FeedbackPrefix \o <<" ", "o", "k">>>>, <<"\n">>))}

ChallengeInit ==
    /\ LoadedInit
    /\ challenge_questions = <<>>
    /\ current_question_index = 0
    /\ pc = "done"

ChallengeNext ==
    \/ \E response \in QuestionResponses, types \in [1..MaxQuestions -> question_types] :
          GenerateChallengeQuestions(response, types)
    \/ \E user_answer \in UserAnswers, response \in ChallengeEvalResponses :
          SubmitAnswer(user_answer, response)
    \/ NextQuestion
    \/ ResetSession

SpecChallenge == ChallengeInit /\ [][ChallengeNext]_vars

\* C6: after 'Generate Challenge Questions' the session holds exactly 3
\* questions: 3 parsed ones, or the 3 fixed fallback questions when the call
\* failed or the reply held fewer than 3 well-formed pairs.
C6_ExactlyThree ==
    Returned("generate_challenge_questions") =>
        /\ Len(challenge_questions) = 3
        /\ args.response.status = "error" =>
              challenge_questions = _generate_fallback_questions

(***************************************************************************)
(* utils/validators.py: validate_file; core/document_processor.py          *)
(*                                                                         *)
(* An uploaded file is its name, its size, whether reading it succeeds,    *)
(* and its content, a list of texts: the texts of the pages of a PDF ('' for *)
(* a page extract_text gives nothing for), the one decoded text of a text  *)
(* file.                                                                   *)
(***************************************************************************)
MAX_FILE_SIZE == 10 * 1024 * 1024

SUPPORTED_FORMATS == {<<".", "p", "d", "f">>, <<".", "t", "x", "t">>}

\* os.path.splitext(name)[1] of a name without directory: from the last dot
\* on, unless only dots come before it
SplitExt(name) ==
    LET dots == {i \in 1..Len(name) : name[i] = "."}
        last == CHOOSE i \in dots : \A j \in dots : j <= i
    IN  IF dots = {} THEN <<>>
        ELSE IF \A j \in 1..(last - 1) : name[j] = "." THEN <<>>
        ELSE SubSeq(name, last, Len(name))

file_extension(file) == Lower(SplitExt(file.name))

\* a plausible slip: the size check left out
validate_file_any_size(file) ==
    IF file_extension(file) \notin SUPPORTED_FORMATS
    THEN <<FALSE, "Unsupported format. Please upload .pdf, .txt files">>
    ELSE <<TRUE, None>>

validate_file(file) ==
    IF file_extension(file) \notin SUPPORTED_FORMATS
    THEN <<FALSE, "Unsupported format. Please upload .pdf, .txt files">>
    ELSE IF file.size > MAX_FILE_SIZE
    THEN <<FALSE, "File too large. Maximum size: 10MB">>
    ELSE <<TRUE, None>>

\* text += page_text + "\n" for every page with text
RECURSIVE PagesText(_, _)
PagesText(pages, k) ==
    IF k > Len(pages) THEN <<>>
    ELSE (IF pages[k] # <<>> THEN pages[k] \o <<"\n">> ELSE <<>>)
            \o PagesText(pages, k + 1)

_extract_pdf_text(file) == PagesText(file.content, 1)

\* the bytes decoded as UTF-8, or as Latin-1 when that fails
_extract_txt_text(file) == file.content[1]

\* the text the try block extracts from a readable file of a supported format
ExtractedText(file) ==
    IF file_extension(file) = <<".", "p", "d", "f">> THEN _extract_pdf_text(file)
    ELSE _extract_txt_text(file)

\* (success, text, error)
process_file(file) ==
    LET valid == validate_file(file)
    IN  IF ~valid[1] THEN <<FALSE, <<>>, valid[2]>>
        ELSE IF ~file.readable THEN <<FALSE, <<>>, "Error processing file: ">>
        ELSE IF file_extension(file) \notin SUPPORTED_FORMATS
        THEN <<FALSE, <<>>, "Unsupported file format: ">>
        ELSE IF Strip(ExtractedText(file)) = <<>>
        THEN <<FALSE, <<>>, "No readable text found in the document">>
        ELSE <<TRUE, clean_text(ExtractedText(file)), None>>

(***************************************************************************)
(* core/ai_assistant.py: generate_summary, answer_question                 *)
(***************************************************************************)
SummaryWords == 150
ChunkSize == 1500
ChunkOverlap == 150

SummaryError == <<"Error generating summary: ">>

generate_summary(doc, response) ==
    IF response.status = "error" THEN SummaryError
    ELSE LET words == SplitWS(Strip(TextOf(response)))
         IN  Join(Slice(words, 0, SummaryWords), <<" ">>)
                \o (IF Len(words) > SummaryWords THEN <<".", ".", ".">> ELSE <<>>)

AnswerError ==
    [answer |-> <<"Error processing question: ">>,
     reference |-> <<"System error">>,
     confidence |-> "0"]

\* what answer_question returns, whether it called the model, and whether it
\* appended the exchange to the history; chunks[0] of no chunks raises
\* IndexError before the model is called, and the prompt is built from
\* _find_relevant_chunk(question, chunks)
\* a plausible slip: the exchange recorded on the failure path too
answer_question_records_failure(question, doc, response) ==
    IF chunk_text(doc, ChunkSize, ChunkOverlap) = <<>>
    THEN [result |-> AnswerError, called |-> 0, appended |-> TRUE]
    ELSE IF response.status = "error"
    THEN [result |-> AnswerError, called |-> 1, appended |-> TRUE]
    ELSE [result |-> _parse_answer(TextOf(response)), called |-> 1, appended |-> TRUE]

answer_question(question, doc, response) ==
    IF chunk_text(doc, ChunkSize, ChunkOverlap) = <<>>
    THEN [result |-> AnswerError, called |-> 0, appended |-> FALSE]
    ELSE IF response.status = "error"
    THEN [result |-> AnswerError, called |-> 1, appended |-> FALSE]
    ELSE [result |-> _parse_answer(TextOf(response)), called |-> 1, appended |-> TRUE]

(***************************************************************************)
(* app.py: the upload and the 'Ask Anything' handlers                      *)
(***************************************************************************)
\* show_upload_interface / process_uploaded_file
ProcessUploadedFile(file, response) ==
    /\ document_text = <<>>
    /\ args' = [fn |-> "process_file", file |-> file, response |-> response]
    /\ ret' = process_file(file)
    /\ pc' = "done"
    /\ IF process_file(file)[1]
       THEN /\ document_text' = process_file(file)[2]
            /\ document_name' = file.name
            /\ summary' = generate_summary(process_file(file)[2], response)
            /\ model_calls' = 1
       ELSE /\ model_calls' = 0
            /\ UNCHANGED <<document_text, document_name, summary>>
    /\ UNCHANGED <<challenge_questions, current_question_index, user_answers,
                   evaluations, conversation_history>>

MaxHistory == 2

\* show_qa_interface: the 'Ask' button
Ask(question, response) ==
    /\ document_text # <<>>
    /\ Len(conversation_history) < MaxHistory
    /\ args' = [fn |-> "answer_question", question |-> question, response |-> response]
    /\ pc' = "done"
    /\ IF question = <<>>
       THEN /\ ret' = None
            /\ model_calls' = 0
            /\ UNCHANGED conversation_history
       ELSE IF ~validate_question(question)[1]
       THEN /\ ret' = [error |-> validate_question(question)[2]]
            /\ model_calls' = 0
            /\ UNCHANGED conversation_history
       ELSE LET answer_data == answer_question(question, document_text, response)
            IN  /\ ret' = answer_data.result
                /\ model_calls' = answer_data.called
                /\ conversation_history' =
                      IF answer_data.appended
                      THEN Append(conversation_history,
                                  [question |-> question,
                                   answer |-> answer_data.result.answer,
                                   reference |-> answer_data.result.reference])
                      ELSE conversation_history
    /\ UNCHANGED sessionVars

\* show_qa_interface: the 'Clear History' button
ClearHistory ==
    /\ document_text # <<>>
    /\ conversation_history' = <<>>
    /\ args' = [fn |-> "clear_history"]
    /\ ret' = None
    /\ pc' = "done"
    /\ model_calls' = 0
    /\ UNCHANGED sessionVars

(***************************************************************************)
(* The session: upload, questions, clearing the history, a new document    *)
(***************************************************************************)
FileNames ==
    {<<"a", ".", "t", "x", "t">>, <<"b", ".", "P", "D", "F">>, <<"c", ".", "d", "o", "c">>}

IsPdfName(name) == Lower(SplitExt(name)) = <<".", "p", "d", "f">>

\* decoded texts, and lists of page texts
FileTexts == {<< <<"a", " ", "b", ".">> >>, << <<"@">> >>, << <<" ", "\n">> >>}
FilePages == {<< <<"a">>, <<>>, <<"b", "@">> >>, << <<"@", "@">> >>, << <<>> >>}

Files ==
    {f \in [name : FileNames, size : {MAX_FILE_SIZE, MAX_FILE_SIZE + 1},
            readable : BOOLEAN, content : FileTexts \cup FilePages] :
        f.content \in (IF IsPdfName(f.name) THEN FilePages ELSE FileTexts)}

ManyWords == [i \in 1..(2 * SummaryWords + 1) |-> IF i % 2 = 1 THEN "a" ELSE " "]

SummaryResponses == {ModelError, Reply(<<" ", "a", " ", "b">>), Reply(ManyWords)}

AskQuestions ==
    {<<>>, <<" ", " ">>, <<"a", "b", "c">>, <<"a", " ", "b", " ", "c", "?">>,
     Str(MaxQuestionLen + 1, "b")}

AskResponses ==
    {ModelError,
     Reply(<<"a">>),
     Reply(ReferencePrefix \o <<" ", "b">>),
     Reply(Join(<<AnswerPrefix \o <<" ", "a">>, ReferencePrefix \o <<" ", "b">>>>, <<"\n">>))}

Init ==
    /\ SessionInit
    /\ args = [fn |-> "initialize_session_state"]
    /\ ret = NoRet
    /\ pc = "done"

Next ==
    \/ \E file \in Files, response \in SummaryResponses :
          ProcessUploadedFile(file, response)
    \/ \E question \in AskQuestions, response \in AskResponses :
          Ask(question, response)
    \/ ClearHistory
    \/ ResetSession

Spec == Init /\ [][Next]_vars

\* C9: when process_file reports success the text it returns is the cleaned
\* text and is non-empty, so the document_text a successful upload stores is
\* non-empty and chunking it gives at least one chunk.
C9_SuccessNonEmpty ==
    (Returned("process_file") /\ ret[1]) =>
        /\ ret[2] = clean_text(ExtractedText(args.file))
        /\ ret[2] # <<>>
        /\ document_text = ret[2]
        /\ Len(chunk_text(document_text, ChunkSize, ChunkOverlap)) >= 1

\* the inputs the claim lists: a wrong extension, more than 10 MB, an
\* unreadable file, no text extracted
BadFile(file) ==
    \/ Lower(SplitExt(file.name)) \notin {<<".", "p", "d", "f">>, <<".", "t", "x", "t">>}
    \/ file.size > 10 * 1024 * 1024
    \/ ~file.readable
    \/ Strip(ExtractedText(file)) = <<>>

\* a question validate_question rejects
InvalidQuestion(question) ==
    \/ Len(Strip(question)) < 5
    \/ Len(question) > 500

\* C10: when validation or extraction fails (wrong extension, file over 10 MB,
\* unreadable file, empty extracted text, invalid question) the model is not
\* called, process_file returns (False, '', error), and document_text,
\* document_name, summary and the conversation history stay as they were.
C10_FailureLeavesSession ==
    [][/\ (args'.fn = "process_file" /\ BadFile(args'.file)) =>
            /\ ret'[1] = FALSE
            /\ ret'[2] = <<>>
            /\ ret'[3] # None
            /\ model_calls' = 0
            /\ UNCHANGED <<document_text, document_name, summary, conversation_history>>
       /\ (args'.fn = "answer_question" /\ InvalidQuestion(args'.question)) =>
            /\ model_calls' = 0
            /\ UNCHANGED <<document_text, document_name, summary, conversation_history>>
      ]_vars

\* an unreadable file of a supported format and size was uploaded and refused
C10_Witness ==
    /\ Returned("process_file")
    /\ ~args.file.readable
    /\ args.file.size <= MAX_FILE_SIZE
    /\ file_extension(args.file) \in SUPPORTED_FORMATS
    /\ ret[1] = FALSE
    /\ model_calls = 0

(***************************************************************************)
(* The four operations that call the model, each called once               *)
(***************************************************************************)
OpsDocuments == {<<>>, LoadedText}

OpsResponses ==
    {ModelError, NoText,
     Reply(<<"a">>),
     Reply(Join(<<AnswerPrefix \o <<" ", "a">>, ReferencePrefix \o <<" ", "b">>>>, <<"\n">>)),
     Reply(ScorePrefix \o <<" ", "4", "/", "5">>),
     Reply(Join(<<QLine, ALine>>, <<"\n">>))}

OpsInit ==
    /\ SessionInit
    /\ ret = NoRet
    /\ pc = "call"
    /\ \/ args \in [fn : {"generate_summary"}, document_text : OpsDocuments,
                    response : OpsResponses]
       \/ args \in [fn : {"answer_question"}, question : {<<"a", " ", "b", " ", "c", "?">>},
                    document_text : OpsDocuments, response : OpsResponses]
       \/ args \in [fn : {"generate_challenge_questions"}, document_text : OpsDocuments,
                    response : OpsResponses, types : [1..MaxQuestions -> question_types]]
       \/ args \in [fn : {"evaluate_answer"}, question : {QLine}, user_answer : UserAnswers,
                    document_text : OpsDocuments, correct_answer : {ALine},
                    response : OpsResponses]

CallGenerateSummary ==
    /\ pc = "call"
    /\ args.fn = "generate_summary"
    /\ pc' = "done"
    /\ ret' = generate_summary(args.document_text, args.response)
    /\ model_calls' = 1
    /\ UNCHANGED <<sessionVars, conversation_history, args>>

CallAnswerQuestion ==
    /\ pc = "call"
    /\ args.fn = "answer_question"
    /\ pc' = "done"
    /\ LET answer_data == answer_question(args.question, args.document_text, args.response)
       IN  /\ ret' = answer_data.result
           /\ model_calls' = answer_data.called
           /\ conversation_history' =
                 IF answer_data.appended
                 THEN Append(conversation_history,
                             [question |-> args.question,
                              answer |-> answer_data.result.answer,
                              reference |-> answer_data.result.reference])
                 ELSE conversation_history
    /\ UNCHANGED <<sessionVars, args>>

CallGenerateChallengeQuestions ==
    /\ pc = "call"
    /\ args.fn = "generate_challenge_questions"
    /\ pc' = "done"
    /\ ret' = generate_challenge_questions(args.document_text, args.response, args.types)
    /\ model_calls' = 1
    /\ UNCHANGED <<sessionVars, conversation_history, args>>

CallEvaluateAnswer ==
    /\ pc = "call"
    /\ args.fn = "evaluate_answer"
    /\ pc' = "done"
    /\ ret' = QG_evaluate_answer(args.question, args.user_answer, args.document_text,
                                 args.correct_answer, args.response)
    /\ model_calls' = 1
    /\ UNCHANGED <<sessionVars, conversation_history, args>>

OpsNext ==
    \/ CallGenerateSummary
    \/ CallAnswerQuestion
    \/ CallGenerateChallengeQuestions
    \/ CallEvaluateAnswer

SpecOps == OpsInit /\ [][OpsNext]_vars

ModelFailed == pc = "done" /\ args.response.status = "error"

\* C7: when the model call fails each of the four operations returns its
\* fallback instead of raising: an error text as the summary, an answer with
\* reference 'System error', score 3 with the two placeholder texts, and the 3
\* fixed fallback questions, each with a question, an expected answer and one
\* of the four types.
C7_FallbackOnFailure ==
    ModelFailed =>
        /\ args.fn = "generate_summary" =>
              ret = <<"Error generating summary: ">>
        /\ args.fn = "answer_question" =>
              /\ ret.reference = <<"System error">>
              /\ ret.answer = <<"Error processing question: ">>
        /\ args.fn = "evaluate_answer" =>
              /\ ret.score = 3
              /\ ret.feedback = <<"Unable to evaluate answer at this time.">>
              /\ ret.justification = <<"System error occurred during evaluation.">>
        /\ args.fn = "generate_challenge_questions" =>
              /\ Len(ret) = 3
              /\ ret = _generate_fallback_questions
              /\ \A i \in 1..Len(ret) :
                    /\ ret[i].question # <<>>
                    /\ ret[i].expected_answer # <<>>
                    /\ ret[i].type \in
                          {"comprehension", "inference", "analysis", "evaluation"}

\* the question generation was called and the model call failed
C7_Witness ==
    /\ ModelFailed
    /\ args.fn = "generate_challenge_questions"
    /\ args.document_text # <<>>
    /\ Len(ret) = 3

(***************************************************************************)
(* utils/text_utils.py: extract_key_sentences                              *)
(***************************************************************************)
SentenceEnd == {".", "!", "?"}

\* the indices of lo..hi, in order, at which a run of other characters starts
RECURSIVE SentenceStarts(_, _, _)
SentenceStarts(s, lo, hi) ==
    IF lo > hi THEN <<>>
    ELSE IF lo = hi
    THEN IF s[lo] \notin SentenceEnd /\ (lo = 1 \/ s[lo - 1] \in SentenceEnd)
         THEN <<lo>> ELSE <<>>
    ELSE SentenceStarts(s, lo, (lo + hi) \div 2)
            \o SentenceStarts(s, (lo + hi) \div 2 + 1, hi)

\* the indices of lo..hi, in order, at which such a run ends
RECURSIVE SentenceStops(_, _, _)
SentenceStops(s, lo, hi) ==
    IF lo > hi THEN <<>>
    ELSE IF lo = hi
    THEN IF s[lo] \notin SentenceEnd /\ (lo = Len(s) \/ s[lo + 1] \in SentenceEnd)
         THEN <<lo>> ELSE <<>>
    ELSE SentenceStops(s, lo, (lo + hi) \div 2)
            \o SentenceStops(s, (lo + hi) \div 2 + 1, hi)

\* re.split(r'[.!?]+', text): the text between the runs of . ! ?, with an
\* empty piece before a leading run and after a trailing one
SplitSentences(text) ==
    LET starts == SentenceStarts(text, 1, Len(text))
        stops == SentenceStops(text, 1, Len(text))
        runs == [k \in 1..Len(starts) |-> SubSeq(text, starts[k], stops[k])]
    IN  IF text = <<>> THEN << <<>> >>
        ELSE (IF text[1] \in SentenceEnd THEN << <<>> >> ELSE <<>>)
                \o runs
                \o (IF text[Len(text)] \in SentenceEnd THEN << <<>> >> ELSE <<>>)

\* [x for x in s if keep(x)] by the indices kept
RECURSIVE KeptIndices(_, _, _, _)
KeptIndices(s, least, lo, hi) ==
    IF lo > hi THEN <<>>
    ELSE IF lo = hi
    THEN IF Len(Strip(s[lo])) > least THEN <<lo>> ELSE <<>>
    ELSE KeptIndices(s, least, lo, (lo + hi) \div 2)
            \o KeptIndices(s, least, (lo + hi) \div 2 + 1, hi)

important_words ==
    << <<"c", "o", "n", "c", "l", "u", "s", "i", "o", "n">>,
       <<"r", "e", "s", "u", "l", "t">>,
       <<"f", "i", "n", "d", "i", "n", "g">>,
       <<"i", "m", "p", "o", "r", "t", "a", "n", "t">>,
       <<"s", "i", "g", "n", "i", "f", "i", "c", "a", "n", "t">>,
       <<"m", "a", "i", "n">>,
       <<"k", "e", "y">> >>

\* word in sentence
Contains(sentence, word) ==
    \E i \in 1..(Len(sentence) - Len(word) + 1) :
        SubSeq(sentence, i, i + Len(word) - 1) = word

\* sum(1 for word in important_words if word.lower() in sentence.lower())
ImportanceScore(sentence) ==
    Cardinality({k \in 1..Len(important_words) :
                    Contains(Lower(sentence), Lower(important_words[k]))})

\* the sort key (x[0], len(x[1])) compared as Python compares tuples
KeyGreater(a, b) == a[1] > b[1] \/ (a[1] = b[1] /\ a[2] > b[2])

\* list.sort(key=..., reverse=True): descending and stable, equal keys keep
\* their order
SortDescending(scored) ==
    LET key(i) == <<scored[i][1], Len(scored[i][2])>>
        place(i) ==
            Cardinality({j \in 1..Len(scored) : KeyGreater(key(j), key(i))})
            + Cardinality({j \in 1..(i - 1) : key(j) = key(i)}) + 1
    IN  [p \in 1..Len(scored) |->
            scored[CHOOSE i \in 1..Len(scored) : place(i) = p]]

\* extract_key_sentences with the length a sentence has to exceed
KeySentencesOver(text, num_sentences, least) ==
    LET pieces == SplitSentences(text)
        kept == KeptIndices(pieces, least, 1, Len(pieces))
        sentences == [k \in 1..Len(kept) |-> Strip(pieces[kept[k]])]
        scored_sentences ==
            [k \in 1..Len(sentences) |-> <<ImportanceScore(sentences[k]), sentences[k]>>]
        sorted == SortDescending(scored_sentences)
    IN  [k \in 1..Len(Slice(sorted, 0, num_sentences)) |-> sorted[k][2]]

MinSentenceLen == 20

\* a plausible slip: sentences of exactly 20 characters kept
extract_key_sentences_from_twenty(text, num_sentences) ==
    KeySentencesOver(text, num_sentences, MinSentenceLen - 1)

extract_key_sentences(text, num_sentences) ==
    KeySentencesOver(text, num_sentences, MinSentenceLen)

MaxSentences == 3
MaxNumSentences == 3

\* sentence bodies around the length limit, with and without important words
SentenceBodies ==
    {<<"a", "b">>,
     Str(20, "x"),
     Str(21, "x"),
     important_words[1] \o Str(11, "y"),
     <<"S">> \o SubSeq(important_words[5], 2, 11) \o Str(10, "z"),
     important_words[6] \o <<" ">> \o important_words[7] \o Str(13, "w")}

\* what follows the k-th sentence and what precedes it
SentenceClose(k) == IF k % 3 = 1 THEN <<".">> ELSE IF k % 3 = 2 THEN <<"!", "?">> ELSE <<>>
SentenceOpen(k) == IF k % 3 = 1 THEN <<>> ELSE IF k % 3 = 2 THEN <<" ">> ELSE <<".", "\n", " ">>

KeyTexts ==
    {Join([k \in 1..Len(b) |-> SentenceOpen(k) \o b[k] \o SentenceClose(k)], <<>>) :
        b \in SeqsUpTo(SentenceBodies, MaxSentences)}

KeyInit ==
    /\ SessionInit
    /\ ret = NoRet
    /\ pc = "call"
    /\ args \in [fn : {"extract_key_sentences"}, text : KeyTexts,
                 num_sentences : 0..MaxNumSentences]

CallExtractKeySentences ==
    /\ pc = "call"
    /\ args.fn = "extract_key_sentences"
    /\ pc' = "done"
    /\ ret' = extract_key_sentences(args.text, args.num_sentences)
    /\ UNCHANGED <<sessionVars, conversation_history, args, model_calls>>

SpecKey == KeyInit /\ [][CallExtractKeySentences]_vars

\* the sentences of the text: the trimmed maximal runs of characters other
\* than . ! ?, as the set of the places they start at
RunStarts(text) ==
    {a \in 1..Len(text) :
        text[a] \notin {".", "!", "?"} /\ (a = 1 \/ text[a - 1] \in {".", "!", "?"})}

RunAt(text, a) ==
    LET b == CHOOSE e \in a..Len(text) :
                /\ \A c \in a..e : text[c] \notin {".", "!", "?"}
                /\ e = Len(text) \/ text[e + 1] \in {".", "!", "?"}
    IN  Strip(SubSeq(text, a, b))

\* the sentences whose trimmed length is at least n
RunsFrom(text, n) == {a \in RunStarts(text) : Len(RunAt(text, a)) >= n}

\* the important words a sentence contains, by their place in the list
\* (1 is 'conclusion')
TermsIn(sentence) ==
    {k \in 1..Len(important_words) : Contains(Lower(sentence), important_words[k])}

\* at most n sentences, in descending order of (importance score, length),
\* every one a sentence of the text of at least `least` trimmed characters,
\* and as many of those as n allows
KeySentencesFrom(least) ==
    LET text == args.text
        n == args.num_sentences
    IN  /\ Len(ret) <= n
        /\ \A i \in 1..Len(ret) :
              /\ Len(Strip(ret[i])) >= 20
              /\ \E a \in RunsFrom(text, least) : RunAt(text, a) = ret[i]
        /\ Len(ret) = MinOf(n, Cardinality(RunsFrom(text, least)))
        /\ \A i, j \in 1..Len(ret) :
              i < j =>
                 \/ Cardinality(TermsIn(ret[i])) > Cardinality(TermsIn(ret[j]))
                 \/ /\ Cardinality(TermsIn(ret[i])) = Cardinality(TermsIn(ret[j]))
                    /\ Len(ret[i]) >= Len(ret[j])
        /\ \A a, b \in RunsFrom(text, least) :
              (/\ 1 \in TermsIn(RunAt(text, a))
               /\ TermsIn(RunAt(text, b)) = {}
               /\ Len(RunAt(text, a)) = Len(RunAt(text, b))) =>
                 \A j \in 1..Len(ret) :
                    ret[j] = RunAt(text, b) =>
                       \E i \in 1..(j - 1) : ret[i] = RunAt(text, a)

\* C11 as stated: extract_key_sentences returns at most n sentences, none
\* under 20 trimmed characters, chosen among all sentences of 20 or more
\* trimmed characters, in descending order of (importance score, length), a
\* sentence with 'conclusion' before one of the same length with no
\* importance term.
C11_KeepsTwentyOrMore ==
    Returned("extract_key_sentences") => KeySentencesFrom(20)

\* C11 amended: the candidates are the sentences of more than 20 trimmed
\* characters; a sentence of exactly 20 is discarded.  The rest as stated.
C11_KeepsOverTwenty ==
    Returned("extract_key_sentences") => KeySentencesFrom(21)

\* a text with a sentence of exactly 20 characters, one with 'conclusion' and
\* one of the same length without a term, all asked for
C11_Witness ==
    /\ Returned("extract_key_sentences")
    /\ \E a \in RunStarts(args.text) : Len(RunAt(args.text, a)) = 20
    /\ Len(ret) = 2
    /\ args.num_sentences = 3
    /\ 1 \in TermsIn(ret[1])
    /\ TermsIn(ret[2]) = {}
    /\ Len(ret[1]) = Len(ret[2])

(***************************************************************************)
(* Two browser sessions of one server process.  Every session has its own  *)
(* st.session_state, so in this specification each session variable holds  *)
(* a function from the session to its value.  get_processors is decorated  *)
(* with st.cache_resource: its body runs once per process and every        *)
(* session gets the dict built then, so conversation_history holds one     *)
(* list for each AIAssistant that exists.                                  *)
(***************************************************************************)
Sessions == {1, 2}

\* the processors dict a session's script run gets: the cached one
get_processors(s) == "cached"

Processors == {get_processors(s) : s \in Sessions}

\* processors['ai_assistant'].conversation_history as session s reaches it
HistorySeenBy(s) == conversation_history[get_processors(s)]

SharedInit ==
    /\ document_text = [s \in Sessions |-> <<>>]
    /\ document_name = [s \in Sessions |-> <<>>]
    /\ summary = [s \in Sessions |-> <<>>]
    /\ challenge_questions = [s \in Sessions |-> <<>>]
    /\ current_question_index = [s \in Sessions |-> 0]
    /\ user_answers = [s \in Sessions |-> <<>>]
    /\ evaluations = [s \in Sessions |-> <<>>]
    /\ conversation_history = [p \in Processors |-> <<>>]
    /\ args = [fn |-> "initialize_session_state"]
    /\ ret = NoRet
    /\ pc = "done"
    /\ model_calls = 0

\* process_uploaded_file in session s
SessionUpload(s, file, response) ==
    /\ document_text[s] = <<>>
    /\ args' = [fn |-> "process_file", session |-> s, file |-> file, response |-> response]
    /\ ret' = process_file(file)
    /\ pc' = "done"
    /\ IF process_file(file)[1]
       THEN /\ document_text' = [document_text EXCEPT ![s] = process_file(file)[2]]
            /\ document_name' = [document_name EXCEPT ![s] = file.name]
            /\ summary' = [summary EXCEPT ![s] = generate_summary(process_file(file)[2], response)]
            /\ model_calls' = 1
       ELSE /\ model_calls' = 0
            /\ UNCHANGED <<document_text, document_name, summary>>
    /\ UNCHANGED <<challenge_questions, current_question_index, user_answers,
                   evaluations, conversation_history>>

\* the 'Ask' button in session s
SessionAsk(s, question, response) ==
    /\ document_text[s] # <<>>
    /\ Len(HistorySeenBy(s)) < MaxHistory
    /\ args' = [fn |-> "answer_question", session |-> s, question |-> question,
                response |-> response]
    /\ pc' = "done"
    /\ IF question = <<>>
       THEN /\ ret' = None
            /\ model_calls' = 0
            /\ UNCHANGED conversation_history
       ELSE IF ~validate_question(question)[1]
       THEN /\ ret' = [error |-> validate_question(question)[2]]
            /\ model_calls' = 0
            /\ UNCHANGED conversation_history
       ELSE LET answer_data == answer_question(question, document_text[s], response)
            IN  /\ ret' = answer_data.result
                /\ model_calls' = answer_data.called
                /\ conversation_history' =
                      IF answer_data.appended
                      THEN [conversation_history EXCEPT ![get_processors(s)] =
                               Append(@, [question |-> question,
                                          answer |-> answer_data.result.answer,
                                          reference |-> answer_data.result.reference])]
                      ELSE conversation_history
    /\ UNCHANGED sessionVars

\* the 'Clear History' button in session s
SessionClearHistory(s) ==
    /\ document_text[s] # <<>>
    /\ conversation_history' = [conversation_history EXCEPT ![get_processors(s)] = <<>>]
    /\ args' = [fn |-> "clear_history", session |-> s]
    /\ ret' = None
    /\ pc' = "done"
    /\ model_calls' = 0
    /\ UNCHANGED sessionVars

\* reset_session in session s, then initialize_session_state on its rerun
SessionReset(s) ==
    /\ document_text[s] # <<>>
    /\ document_text' = [document_text EXCEPT ![s] = <<>>]
    /\ document_name' = [document_name EXCEPT ![s] = <<>>]
    /\ summary' = [summary EXCEPT ![s] = <<>>]
    /\ challenge_questions' = [challenge_questions EXCEPT ![s] = <<>>]
    /\ current_question_index' = [current_question_index EXCEPT ![s] = 0]
    /\ user_answers' = [user_answers EXCEPT ![s] = <<>>]
    /\ evaluations' = [evaluations EXCEPT ![s] = <<>>]
    /\ conversation_history' = [conversation_history EXCEPT ![get_processors(s)] = <<>>]
    /\ args' = [fn |-> "reset_session", session |-> s]
    /\ ret' = None
    /\ pc' = "done"
    /\ model_calls' = 0

SharedFiles ==
    [name : {<<"a", ".", "t", "x", "t">>}, size : {MAX_FILE_SIZE}, readable : BOOLEAN,
     content : {<< <<"a", " ", "b", ".">> >>}]

\* what each session asks: a valid question of its own, and one too short
SessionQuestions(s) ==
    {<<"a", "b", "c">>,
     IF s = 1 THEN <<"a", " ", "b", " ", "c", "?">> ELSE <<"b", " ", "a", " ", "d", "?">>}

SharedResponses == {ModelError, Reply(AnswerPrefix \o <<" ", "a">>)}

SharedNext ==
    \E s \in Sessions :
        \/ \E file \in SharedFiles, response \in SharedResponses :
              SessionUpload(s, file, response)
        \/ \E question \in SessionQuestions(s), response \in SharedResponses :
              SessionAsk(s, question, response)
        \/ SessionClearHistory(s)
        \/ SessionReset(s)

SpecShared == SharedInit /\ [][SharedNext]_vars

\* C12: with two sessions interleaving upload, ask, clear-history and reset
\* actions, the conversation history a session sees holds only exchanges of
\* questions that session asked, and no step of the other session changes it.
C12_HistoryPerSession ==
    [][\A s \in Sessions :
          /\ \A i \in 1..Len(HistorySeenBy(s)') :
                HistorySeenBy(s)'[i].question \in SessionQuestions(s)
          /\ args'.session # s => HistorySeenBy(s)' = HistorySeenBy(s)
      ]_vars

\* the step called answer_question and the call succeeded: the question passed
\* validate_question, the document has a word to chunk and the model replied
AnswerSucceeded ==
    /\ args'.fn = "answer_question"
    /\ Len(Strip(args'.question)) >= 5
    /\ Len(args'.question) <= 500
    /\ \E i \in 1..Len(document_text) : document_text[i] \notin {" ", "\t", "\n"}
    /\ args'.response.status # "error"

\* C13: conversation_history is the list, in call order, of the {question,
\* answer, reference} exchanges of the answer_question calls that succeeded
\* since the last clear_history or reset_session: a successful call appends
\* its exchange, a failed or refused one appends nothing, clear_history and
\* reset_session leave the history empty, and nothing else changes it.
C13_HistoryIsExchanges ==
    [][/\ AnswerSucceeded =>
            conversation_history' =
                conversation_history \o
                    << [question |-> args'.question, answer |-> ret'.answer,
                        reference |-> ret'.reference] >>
       /\ (args'.fn = "answer_question" /\ ~AnswerSucceeded) =>
            conversation_history' = conversation_history
       /\ args'.fn \in {"clear_history", "reset_session"} =>
            conversation_history' = <<>>
       /\ args'.fn \notin {"answer_question", "clear_history", "reset_session"} =>
            conversation_history' = conversation_history
      ]_vars

\* two different exchanges are in the history, the second just appended
C13_Witness ==
    /\ Returned("answer_question")
    /\ args.response.status = "ok"
    /\ Len(conversation_history) = 2
    /\ conversation_history[1].answer # conversation_history[2].answer
    /\ conversation_history[2].answer = ret.answer
    /\ conversation_history[2].question = args.question

\* the values of the lines of text that start with 'Reference:'
ReferenceValues(text) ==
    {Strip(AfterFirstColon(SplitLines(text)[k])) :
        k \in {j \in 1..Len(SplitLines(text)) :
                  StartsWith(SplitLines(text)[j], <<"R", "e", "f", "e", "r", "e", "n", "c", "e", ":">>)}}

\* C14: _parse_answer falls back to the whole response as the answer and to
\* the reference 'General document content' only when the response has neither
\* an 'Answer:' line nor a 'Reference:' line; when it has a 'Reference:' line
\* the returned reference is the value of such a line.
C14_ReferenceKept ==
    AnswerParsed =>
        /\ ret.reference = <<"General document content">> =>
              /\ ~HasLineWith(args.answer_text, AnswerPrefix)
              /\ ~HasLineWith(args.answer_text, ReferencePrefix)
        /\ HasLineWith(args.answer_text, ReferencePrefix) =>
              ret.reference \in ReferenceValues(args.answer_text)

(***************************************************************************)
(* _parse_questions called once on a reply                                 *)
(***************************************************************************)
MaxReplyLines == 3

\* three well-formed pairs
ThreePairs ==
    << <<"Q", "1", ":", " ", "a">>, <<"A", "1", ":", " ", "b">>,
       <<"Q", "2", ":", " ", "c">>, <<"A", "2", ":", " ", "d">>,
       <<"Q", "3", ":", " ", "e">>, <<"A", "3", ":", " ", "f">> >>

ReplyLines ==
    {QLine,
     ALine,
     <<"A", "2", ":", " ", "w", ":", "v">>,
     <<"Q", "1", ":">>,
     <<"A", "1", ":", " ">>,
     <<"A", "s", ":", " ", "n">>,
     <<"Q", "u", ":", " ", "m">>,
     <<"n", ":", "Q">>}

ReplyTexts ==
    {Join(head \o body, <<"\n">>) :
        head \in {<<>>, ThreePairs}, body \in SeqsUpTo(ReplyLines, MaxReplyLines)}

ReplyTypes ==
    {[k \in 1..MaxQuestions |-> "analysis"],
     [k \in 1..MaxQuestions |->
        IF k = 1 THEN "evaluation" ELSE IF k = 2 THEN "comprehension" ELSE "inference"]}

QuestionsInit ==
    /\ SessionInit
    /\ ret = NoRet
    /\ pc = "call"
    /\ args \in [fn : {"_parse_questions"}, questions_text : ReplyTexts, types : ReplyTypes]

CallParseQuestions ==
    /\ pc = "call"
    /\ args.fn = "_parse_questions"
    /\ pc' = "done"
    /\ ret' = _parse_questions(args.questions_text, args.types)
    /\ UNCHANGED <<sessionVars, conversation_history, args, model_calls>>

SpecQuestions == QuestionsInit /\ [][CallParseQuestions]_vars

\* the trimmed lines of the trimmed reply
TrimmedLines(text) ==
    [k \in 1..Len(SplitOn(Strip(text), "\n")) |-> Strip(SplitOn(Strip(text), "\n")[k])]

\* a line 'Qn:' / 'An:': the letter, a number, a colon
IsNumbered(line, letter) ==
    /\ Len(line) >= 3
    /\ line[1] = letter
    /\ \E c \in 3..Len(line) :
          /\ line[c] = ":"
          /\ \A j \in 2..(c - 1) : line[j] \in {"0", "1", "2", "3", "4", "5", "6", "7", "8", "9"}

\* a line that starts with the letter and holds a colon
IsLabelled(line, letter) ==
    /\ Len(line) >= 2
    /\ line[1] = letter
    /\ \E c \in 2..Len(line) : line[c] = ":"

LineValue(line) == Strip(AfterFirstColon(line))

\* The question/answer pairs of the lines, in order of appearance, given the
\* places Q of the question lines and A of the answer lines: a question line
\* with a value is paired with the last answer line before the next question
\* line or the end, if there is one and it has a value.
PairsOf(lines, Q, A) ==
    LET nextQ(i) == IF \E j \in Q : j > i
                    THEN CHOOSE j \in Q : j > i /\ \A h \in Q : h > i => j <= h
                    ELSE Len(lines) + 1
        answers(i) == {k \in A : i < k /\ k < nextQ(i)}
        lastA(i) == CHOOSE k \in answers(i) : \A h \in answers(i) : h <= k
        paired == {i \in Q : /\ LineValue(lines[i]) # <<>>
                             /\ answers(i) # {}
                             /\ LineValue(lines[lastA(i)]) # <<>>}
        nth(n) == CHOOSE i \in paired : Cardinality({j \in paired : j < i}) = n - 1
    IN  [n \in 1..Cardinality(paired) |->
            <<LineValue(lines[nth(n)]), LineValue(lines[lastA(nth(n))])>>]

NumberedPairs(text) ==
    LET lines == TrimmedLines(text)
    IN  PairsOf(lines, {i \in 1..Len(lines) : IsNumbered(lines[i], "Q")},
                       {i \in 1..Len(lines) : IsNumbered(lines[i], "A")})

LabelledPairs(text) ==
    LET lines == TrimmedLines(text)
    IN  PairsOf(lines, {i \in 1..Len(lines) : IsLabelled(lines[i], "Q")},
                       {i \in 1..Len(lines) : IsLabelled(lines[i], "A")})

\* ret is the first 3 of the pairs, each with one of the four types
FirstThreeOf(pairs) ==
    /\ Len(ret) = MinOf(3, Len(pairs))
    /\ \A n \in 1..Len(ret) :
          /\ ret[n].question = pairs[n][1]
          /\ ret[n].expected_answer = pairs[n][2]
          /\ ret[n].type \in {"comprehension", "inference", "analysis", "evaluation"}

\* C15 as stated: _parse_questions records a question only when its 'Qn:' line
\* and a following 'An:' line were seen (no answer line before the next Q line
\* or the end: dropped; an A line before any Q line: ignored; any other line
\* changes nothing), in order of appearance, at most 3, each with one of the
\* four types.
C15_NumberedPairs ==
    Returned("_parse_questions") => FirstThreeOf(NumberedPairs(args.questions_text))

\* C15 amended: the question lines are the trimmed lines that start with 'Q'
\* and hold a colon, the answer lines those that start with 'A' and hold a
\* colon, numbered or not; only lines of neither kind change nothing.
C15_LabelledPairs ==
    Returned("_parse_questions") => FirstThreeOf(LabelledPairs(args.questions_text))

\* four pairs seen, a question line without an answer among them, 3 returned
C15_Witness ==
    /\ Returned("_parse_questions")
    /\ Len(LabelledPairs(args.questions_text)) = 4
    /\ Len(ret) = 3
    /\ \E i \in 1..Len(TrimmedLines(args.questions_text)) :
          /\ IsLabelled(TrimmedLines(args.questions_text)[i], "Q")
          /\ LineValue(TrimmedLines(args.questions_text)[i]) \notin
                {LabelledPairs(args.questions_text)[n][1] : n \in 1..4}

\* the reply the model gave, '' when it gave no text
ReplyText == IF args.response.status = "ok" THEN args.response.text ELSE <<>>

\* some line of the text, trimmed, starts with the label
HasTrimmedLineWith(text, label) ==
    \E k \in 1..Len(SplitOn(text, "\n")) : StartsWith(Strip(SplitOn(text, "\n")[k]), label)

\* C16: when the model call succeeds and the reply has no 'Feedback:' line
\* (no 'Justification:' line), evaluate_answer returns '' for that field; the
\* placeholders 'Unable to evaluate answer at this time.' and 'System error
\* occurred during evaluation.' are returned only when the operation fails.
C16_MissingFieldsEmpty ==
    Evaluated =>
        /\ args.response.status # "error" =>
              /\ ~HasTrimmedLineWith(ReplyText, <<"F", "e", "e", "d", "b", "a", "c", "k", ":">>)
                    => ret.feedback = <<>>
              /\ ~HasTrimmedLineWith(ReplyText,
                     <<"J", "u", "s", "t", "i", "f", "i", "c", "a", "t", "i", "o", "n", ":">>)
                    => ret.justification = <<>>
        /\ (\/ ret.feedback = <<"Unable to evaluate answer at this time.">>
            \/ ret.justification = <<"System error occurred during evaluation.">>)
              => args.response.status = "error"

\* a reply with a feedback line and no justification line was evaluated
C16_Witness ==
    /\ Evaluated
    /\ args.response.status = "ok"
    /\ HasTrimmedLineWith(ReplyText, FeedbackPrefix)
    /\ ~HasTrimmedLineWith(ReplyText, JustificationPrefix)
    /\ ret.feedback # <<>>
    /\ ret.justification = <<>>
    /\ evaluations[args.question_idx] = ret

\* chunk k (counted from 1) is the words from index (k-1)*(maxSize-overlap)
\* on, at most maxSize of them, joined by single spaces; it starts before the
\* end of the words, so it is not empty and its boundaries do not exceed W
ChunkIsWindow(k) ==
    LET words == SplitWS(args.text)
        first == (k - 1) * (args.max_chunk_size - args.overlap)
        last == MinOf(first + args.max_chunk_size, Len(words))
    IN  /\ first < Len(words)
        /\ last <= Len(words)
        /\ ret[k] # <<>>
        /\ SplitWS(ret[k]) = SubSeq(words, first + 1, last)
        /\ ret[k] = Join(SubSeq(words, first + 1, last), <<" ">>)

\* the chunks whose window reaches the end of the words
ChunksReachingEnd ==
    {k \in 1..Len(ret) :
        (k - 1) * (args.max_chunk_size - args.overlap) + args.max_chunk_size
            >= Len(SplitWS(args.text))}

\* C17 as stated: for every text and maxSize > overlap >= 0, chunk_text returns
\* a finite list in which chunk k is the window of at most maxSize words at
\* k*(maxSize-overlap), no boundary exceeds W, every chunk is non-empty, and
\* exactly one chunk, the last, reaches the end of the words.
C17_OneChunkReachesEnd ==
    ChunkReturned =>
        /\ \A k \in 1..Len(ret) : ChunkIsWindow(k)
        /\ ChunksReachingEnd = {Len(ret)}
        /\ Len(ret) >= 1

\* C17 amended: the same for every text with at least one word; for a text
\* without words chunk_text returns the empty list.
C17_WindowsOfWords ==
    ChunkReturned =>
        /\ \A k \in 1..Len(ret) : ChunkIsWindow(k)
        /\ SplitWS(args.text) # <<>> =>
              /\ ChunksReachingEnd = {Len(ret)}
              /\ Len(ret) >= 1
        /\ SplitWS(args.text) = <<>> => ret = <<>>

\* overlapping windows, more than two of them
C17_Witness ==
    /\ ChunkReturned
    /\ args.overlap > 0
    /\ Len(ret) >= 3
    /\ Len(SplitWS(args.text)) > args.max_chunk_size
    /\ ChunksReachingEnd = {Len(ret)}

\* show_challenge_questions takes its else branch, show_challenge_results
\* (the only place with the 'Try New Challenge' button)
ShowsChallengeResults ==
    /\ document_text # <<>>
    /\ challenge_questions # <<>>
    /\ ~(current_question_index < Len(challenge_questions))

\* C18: while challenge_questions is non-empty, 0 <= current_question_index <=
\* len(challenge_questions) - 1 and every key of evaluations and of
\* user_answers is an index in that range; the index never equals the number
\* of questions and the challenge results are never shown.
C18_IndexInRange ==
    /\ challenge_questions # <<>> =>
          /\ current_question_index >= 0
          /\ current_question_index <= Len(challenge_questions) - 1
          /\ \A k \in DOMAIN evaluations : k >= 0 /\ k <= Len(challenge_questions) - 1
          /\ \A k \in DOMAIN user_answers : k >= 0 /\ k <= Len(challenge_questions) - 1
    /\ ~ShowsChallengeResults

\* the last of three questions is shown and its answer has been evaluated
C18_Witness ==
    /\ Len(challenge_questions) = 3
    /\ current_question_index = 2
    /\ DOMAIN evaluations = {0, 1, 2}
    /\ DOMAIN user_answers = {0, 1, 2}
    /\ Returned("evaluate_answer")

=============================================================================
